---- MODULE Spec2Model ----
(***************************************************************************)
(* Model of the thumbnail tooling of james_site:                           *)
(*   src/generate_thumbnails.py  resize_with_aspect_ratio,                 *)
(*                               compress_to_target_size,                  *)
(*                               generate_thumbnails                       *)
(*   src/analyze_images.py       analyze_images                            *)
(*                                                                         *)
(* Three specifications share the variables:                               *)
(*   Spec          the two batch programs, file by file                    *)
(*   SpecCompress  one call of compress_to_target_size, any arguments      *)
(*   SpecResize    one call of resize_with_aspect_ratio, any arguments     *)
(*                                                                         *)
(* An encoding (the bytes in a BytesIO buffer) is modelled by the quality  *)
(* it was encoded at and its length in bytes.  The JPEG encoder is the     *)
(* environment: the length it produces at a quality is any value of        *)
(* EncodedSizes, with no monotonicity assumed.                             *)
(***************************************************************************)
EXTENDS Integers, Sequences, FiniteSets

\* ------------------------------------------------------------ constants

\* generate_thumbnails.py:16-19
TARGET_SIZE_BYTES == 250 * 1024
SCALE_FACTOR == <<1, 4>>          \* 0.25 as the exact fraction 1/4
QUALITY_START == 85
QUALITY_STEP == 5

\* generate_thumbnails.py:39, the literal of `while quality > 10`
QualityFloor == 10

\* generate_thumbnails.py:22 and analyze_images.py:15
IMAGE_EXTENSIONS ==
    {".jpg", ".jpeg", ".png", ".gif", ".bmp", ".webp", ".tiff", ".JPG", ".JPEG", ".PNG"}

\* ---------------------------------------------------------------- bounds

MaxQuality == 100    \* largest starting quality drawn in SpecCompress
MaxStep == 5         \* quality_step is drawn from 1..MaxStep
MaxBudget == 2       \* target_bytes is drawn from 1..MaxBudget
SizeSpread == 1      \* an encoding's length is within SizeSpread of the budget
MaxDim == 6          \* source width and height are drawn from 1..MaxDim
ScaleDen == 4        \* scale factors are the fractions n/ScaleDen, n in 1..ScaleDen

VARIABLES
    \* ---- the batch programs
    prog,             \* "generate" | "analyze": which script runs
    dir,              \* the source directory: [exists, entries]
    image_files,      \* the filtered, sorted list
    idx,              \* position of the for loop in image_files (1-based)
    pc,               \* position in the program
    cm,               \* the context manager of `with Image.open(...)`: the file it holds
    img,              \* what the name `img` is bound to
    openHandles,      \* image files currently held open
    original_size,
    scale_factor,     \* argument of resize_with_aspect_ratio
    requested,        \* the size tuple handed to img.resize
    resized,
    thumbnail_data,
    results,
    thumbs,           \* the output directory: stem -> what was written last
    stdout,           \* the printed lines
    exc,              \* the exception in flight in the caller ("none" when none)
    visited,          \* history: the files the for loop has taken, in order
    writes,           \* history: number of thumbnail files written
    \* ---- one call of compress_to_target_size
    cimg,             \* argument img
    target_bytes,
    initial_quality,
    quality_step,
    quality,
    output,           \* local `output`: [bound, quality, size]
    cpc,              \* "idle" | "loop" | "returned" | "raised"
    result,           \* the returned bytes
    cexc,             \* the exception that left the function
    encodes,          \* history: number of img.save calls
    firstFit,         \* history: first quality whose encoding had size <= target (0: none)
    firstSize,        \* history: length of the first completed encoding (0: none)
    fellBack,         \* history: the statement after the loop was executed
    enc100            \* length of the quality-100 encoding of cimg

batchVars == <<prog, dir, image_files, idx, pc, cm, img, openHandles, original_size,
               scale_factor, requested, resized, thumbnail_data, results, thumbs,
               stdout, exc, visited, writes>>
compVars == <<cimg, target_bytes, initial_quality, quality_step, quality, output, cpc,
              result, cexc, encodes, firstFit, firstSize, fellBack, enc100>>
vars == <<batchVars, compVars>>

\* ------------------------------------------------------------ values

NoImage == [obj |-> "none", width |-> 0, height |-> 0, mode |-> "none"]
Unbound == [bound |-> FALSE, quality |-> 0, size |-> 0]
EmptyBuffer == [bound |-> TRUE, quality |-> 0, size |-> 0]   \* a fresh BytesIO()
NoBytes == [quality |-> 0, size |-> 0]

\* ------------------------------------------- compress_to_target_size

\* The lengths the encoder can produce around a budget: under, at and over it.
EncodedSizes(budget) ==
    {s \in (budget - SizeSpread)..(budget + SizeSpread) : s >= 1}

\* img.save(output, format="JPEG", ...) raises for an empty image and for a
\* mode JPEG cannot hold; otherwise it writes the encoding.
CanEncodeJPEG(image) ==
    /\ image.width > 0
    /\ image.height > 0
    /\ image.mode \in {"RGB", "L"}

\* The encoder is a function of the image and the quality: the quality-100
\* encoding has length enc100; every other quality is encoded at most once
\* in a call, so its length is drawn when it is encoded.
SizesAt(q) == IF q = 100 THEN {enc100} ELSE EncodedSizes(target_bytes)

LoopConditionInclusive(q) == q >= QualityFloor
\* line 39: while quality > 10
LoopCondition(q) == q > QualityFloor

WithinBudgetStrict(size, target) == size < target
\* line 46: if size <= target_bytes
WithinBudget(size, target) == size <= target

StartAtConfigured(q0) == QUALITY_START
\* line 37: quality = initial_quality
StartQuality(q0) == q0

DecrementByOne(q, step) == q - 1
\* line 49: quality -= quality_step
Decrement(q, step) == q - step

BufferAfterSave == Unbound
\* line 42: output = BytesIO(), assigned before img.save is called
BufferBeforeSave == EmptyBuffer

FirstFitAfter(q, size) ==
    IF firstFit = 0 /\ size <= target_bytes THEN q ELSE firstFit

\* lines 42-47: the encoding fits, return it
EncodeHit ==
    /\ pc = "compress" /\ cpc = "loop"
    /\ LoopCondition(quality)
    /\ CanEncodeJPEG(cimg)
    /\ \E size \in SizesAt(quality) :
          /\ WithinBudget(size, target_bytes)
          /\ output' = [bound |-> TRUE, quality |-> quality, size |-> size]
          /\ result' = [quality |-> quality, size |-> size]
          /\ firstFit' = FirstFitAfter(quality, size)
          /\ firstSize' = IF encodes = 0 THEN size ELSE firstSize
    /\ encodes' = encodes + 1
    /\ cpc' = "returned"
    /\ UNCHANGED <<cimg, target_bytes, initial_quality, quality_step, quality, cexc,
                   fellBack, enc100>>
    /\ UNCHANGED batchVars

\* lines 42-49: the encoding is over the budget, lower the quality
EncodeMiss ==
    /\ pc = "compress" /\ cpc = "loop"
    /\ LoopCondition(quality)
    /\ CanEncodeJPEG(cimg)
    /\ \E size \in SizesAt(quality) :
          /\ ~WithinBudget(size, target_bytes)
          /\ output' = [bound |-> TRUE, quality |-> quality, size |-> size]
          /\ firstFit' = FirstFitAfter(quality, size)
          /\ firstSize' = IF encodes = 0 THEN size ELSE firstSize
    /\ encodes' = encodes + 1
    /\ quality' = Decrement(quality, quality_step)
    /\ UNCHANGED <<cimg, target_bytes, initial_quality, quality_step, cpc, result, cexc,
                   fellBack, enc100>>
    /\ UNCHANGED batchVars

\* lines 42-43: img.save raises; the exception leaves the function
EncodeRaise ==
    /\ pc = "compress" /\ cpc = "loop"
    /\ LoopCondition(quality)
    /\ ~CanEncodeJPEG(cimg)
    /\ output' = BufferBeforeSave
    /\ encodes' = encodes + 1
    /\ cpc' = "raised"
    /\ cexc' = "EncodeError"
    /\ UNCHANGED <<cimg, target_bytes, initial_quality, quality_step, quality, result,
                   firstFit, firstSize, fellBack, enc100>>
    /\ UNCHANGED batchVars

\* line 52 after at least one iteration: return the last encoding
FallbackReturn ==
    /\ pc = "compress" /\ cpc = "loop"
    /\ ~LoopCondition(quality)
    /\ output.bound
    /\ result' = [quality |-> output.quality, size |-> output.size]
    /\ cpc' = "returned"
    /\ fellBack' = TRUE
    /\ UNCHANGED <<cimg, target_bytes, initial_quality, quality_step, quality, output,
                   cexc, encodes, firstFit, firstSize, enc100>>
    /\ UNCHANGED batchVars

\* line 52 when the loop body never ran: `output` is not bound
FallbackUnbound ==
    /\ pc = "compress" /\ cpc = "loop"
    /\ ~LoopCondition(quality)
    /\ ~output.bound
    /\ cpc' = "raised"
    /\ cexc' = "UnboundLocalError"
    /\ fellBack' = TRUE
    /\ UNCHANGED <<cimg, target_bytes, initial_quality, quality_step, quality, output,
                   result, encodes, firstFit, firstSize, enc100>>
    /\ UNCHANGED batchVars

\* The images handed to compress_to_target_size in SpecCompress: a 1x1 image
\* and an empty one (a zero dimension), both in a JPEG mode.
CompressImages ==
    {[obj |-> "resized", width |-> w, height |-> 1, mode |-> "RGB"] : w \in 0..1}

\* The batch variables other than prog, dir, pc, img and scale_factor, before any step.
BatchIdle ==
    /\ image_files = <<>>
    /\ idx = 1
    /\ cm = "none"
    /\ openHandles = {}
    /\ original_size = 0
    /\ requested = <<0, 0>>
    /\ resized = NoImage
    /\ thumbnail_data = NoBytes
    /\ results = <<>>
    /\ thumbs = <<>>
    /\ stdout = <<>>
    /\ exc = "none"
    /\ visited = <<>>
    /\ writes = 0

\* line 37: quality = initial_quality, for any arguments
InitCompress ==
    /\ BatchIdle
    /\ prog = "generate"
    /\ dir = [exists |-> TRUE, entries |-> {}]
    /\ img = NoImage
    /\ scale_factor = SCALE_FACTOR
    /\ pc = "compress"
    /\ cimg \in CompressImages
    /\ target_bytes \in 1..MaxBudget
    /\ initial_quality \in (QualityFloor - 1)..MaxQuality
    /\ quality_step \in 1..MaxStep
    /\ quality = StartQuality(initial_quality)
    /\ output = Unbound
    /\ cpc = "loop"
    /\ result = NoBytes
    /\ cexc = "none"
    /\ encodes = 0
    /\ firstFit = 0
    /\ firstSize = 0
    /\ fellBack = FALSE
    /\ enc100 \in EncodedSizes(target_bytes)

NextCompress ==
    \/ EncodeHit
    \/ EncodeMiss
    \/ EncodeRaise
    \/ FallbackReturn
    \/ FallbackUnbound

SpecCompress == InitCompress /\ [][NextCompress]_vars

\* ------------------------------------------- resize_with_aspect_ratio

IntRound(n, d) == (2 * n + d) \div (2 * d)
\* lines 27-28: int(x) of a non-negative product n/d truncates
IntTrunc(n, d) == n \div d

\* lines 27-28: (int(img.width * scale_factor), int(img.height * scale_factor))
NewSize(image, f) ==
    <<IntTrunc(image.width * f[1], f[2]), IntTrunc(image.height * f[1], f[2])>>

ResizedImage(image, size) ==
    [obj |-> "resized", width |-> size[1], height |-> size[2], mode |-> image.mode]

\* line 29 with both requested dimensions positive
ResizeOk ==
    /\ pc = "resize"
    /\ requested' = NewSize(img, scale_factor)
    /\ requested'[1] > 0 /\ requested'[2] > 0
    /\ resized' = ResizedImage(img, requested')
    /\ pc' = "call_compress"
    /\ UNCHANGED <<prog, dir, image_files, idx, cm, img, openHandles, original_size,
                   scale_factor, thumbnail_data, results, thumbs, stdout, exc, visited,
                   writes>>
    /\ UNCHANGED compVars

\* line 29 with a requested dimension of 0, the library returning an empty image
ResizeEmpty ==
    /\ pc = "resize"
    /\ requested' = NewSize(img, scale_factor)
    /\ requested'[1] = 0 \/ requested'[2] = 0
    /\ resized' = ResizedImage(img, requested')
    /\ pc' = "call_compress"
    /\ UNCHANGED <<prog, dir, image_files, idx, cm, img, openHandles, original_size,
                   scale_factor, thumbnail_data, results, thumbs, stdout, exc, visited,
                   writes>>
    /\ UNCHANGED compVars

\* line 29 with a requested dimension of 0, the library rejecting the size
ResizeRaise ==
    /\ pc = "resize"
    /\ requested' = NewSize(img, scale_factor)
    /\ requested'[1] = 0 \/ requested'[2] = 0
    /\ exc' = "ValueError"
    /\ pc' = "exit_with"
    /\ UNCHANGED <<prog, dir, image_files, idx, cm, img, openHandles, original_size,
                   scale_factor, resized, thumbnail_data, results, thumbs, stdout,
                   visited, writes>>
    /\ UNCHANGED compVars

\* line 29 on an image not decoded yet whose data cannot be decoded
ResizeLoadRaise ==
    /\ pc = "resize"
    /\ img.obj = "file"
    /\ requested' = NewSize(img, scale_factor)
    /\ exc' = "OSError"
    /\ pc' = "exit_with"
    /\ UNCHANGED <<prog, dir, image_files, idx, cm, img, openHandles, original_size,
                   scale_factor, resized, thumbnail_data, results, thumbs, stdout,
                   visited, writes>>
    /\ UNCHANGED compVars

CompIdle ==
    /\ cimg = NoImage
    /\ target_bytes = 0
    /\ initial_quality = 0
    /\ quality_step = 0
    /\ quality = 0
    /\ output = Unbound
    /\ cpc = "idle"
    /\ result = NoBytes
    /\ cexc = "none"
    /\ encodes = 0
    /\ firstFit = 0
    /\ firstSize = 0
    /\ fellBack = FALSE
    /\ enc100 = 0

ScaleFactors == {<<n, ScaleDen>> : n \in 1..ScaleDen}

\* One call of resize_with_aspect_ratio on any image, by any scale factor.
InitResize ==
    /\ BatchIdle
    /\ prog = "generate"
    /\ dir = [exists |-> TRUE, entries |-> {}]
    /\ CompIdle
    /\ pc = "resize"
    /\ img \in {[obj |-> o, width |-> w, height |-> h, mode |-> "RGB"] :
                    o \in {"file", "converted"}, w \in 1..MaxDim, h \in 1..MaxDim}
    /\ scale_factor \in ScaleFactors

NextResize ==
    \/ ResizeOk
    \/ ResizeEmpty
    \/ ResizeRaise
    \/ ResizeLoadRaise

SpecResize == InitResize /\ [][NextResize]_vars

\* ------------------------------- generate_thumbnails / analyze_images

\* The directory entries the model draws from.  `stem` and `suffix` are
\* Path.stem and Path.suffix of the entry; its name is stem + suffix.
DirUniverse ==
    { [stem |-> "a", suffix |-> ".jpg", is_file |-> TRUE],
      [stem |-> "a", suffix |-> ".png", is_file |-> TRUE],
      [stem |-> "b", suffix |-> ".JPG", is_file |-> TRUE],
      [stem |-> "b", suffix |-> ".Jpg", is_file |-> TRUE],
      [stem |-> "c", suffix |-> ".png", is_file |-> FALSE] }

\* Path.name
Name(f) == f.stem \o f.suffix

\* The names of DirUniverse in Python's str order (code points: "J" < "P" < "j" < "p").
StrOrder == <<"a.jpg", "a.png", "b.JPG", "b.Jpg", "c.png">>

StrRank(n) == CHOOSE i \in 1..Len(StrOrder) : StrOrder[i] = n

\* x.name <= y.name
NameLeq(x, y) == StrRank(Name(x)) <= StrRank(Name(y))

\* lines 65-68 (analyze_images.py 25-28): f.is_file() and f.suffix in IMAGE_EXTENSIONS
Matching(entries) == {f \in entries : f.is_file /\ f.suffix \in IMAGE_EXTENSIONS}

\* line 71 (analyze_images.py 31): image_files.sort(key=lambda x: x.name)
RECURSIVE SortByName(_)
SortByName(S) ==
    IF S = {} THEN <<>>
    ELSE LET m == CHOOSE x \in S : \A y \in S : NameLeq(x, y)
         IN  <<m>> \o SortByName(S \ {m})

\* What a source image can be: dimensions around the 1/4 boundary, a JPEG
\* mode and one that needs conversion, one file size.
SourceDims == {3, 4}
SourceModes == {"RGB", "RGBA"}
OriginalSizes == {4 * TARGET_SIZE_BYTES}

Line(kind, name, n) == [kind |-> kind, name |-> name, n |-> n]

img_path == image_files[idx]

\* line 101: OUTPUT_DIR / f"{img_path.stem}.jpg"
OutputName(f) == f.stem \o ".jpg"

\* Total of a field over results (lines 133-134)
RECURSIVE SumOf(_, _)
SumOf(rs, field) ==
    IF rs = <<>> THEN 0 ELSE Head(rs)[field] + SumOf(Tail(rs), field)

\* lines 57-59 (analyze_images.py 20-22)
NoDirectory ==
    /\ pc = "start"
    /\ ~dir.exists
    /\ stdout' = Append(stdout, Line("no_directory", "", 0))
    /\ pc' = "done"
    /\ UNCHANGED <<prog, dir, image_files, idx, cm, img, openHandles, original_size,
                   scale_factor, requested, resized, thumbnail_data, results, thumbs,
                   exc, visited, writes>>
    /\ UNCHANGED compVars

\* lines 62-77 (analyze_images.py 24-33)
Scan ==
    /\ pc = "start"
    /\ dir.exists
    /\ image_files' = SortByName(Matching(dir.entries))
    /\ stdout' = Append(stdout, Line("found", "", Len(image_files')))
    /\ results' = <<>>
    /\ idx' = 1
    /\ pc' = "loop"
    /\ UNCHANGED <<prog, dir, cm, img, openHandles, original_size, scale_factor,
                   requested, resized, thumbnail_data, thumbs, exc, visited, writes>>
    /\ UNCHANGED compVars

\* line 79 (analyze_images.py 35): the for loop takes the next file.  The
\* names bound by the previous iteration are never read before they are
\* bound again; they are cleared here.
NextFile ==
    /\ pc = "loop"
    /\ idx <= Len(image_files)
    /\ visited' = Append(visited, img_path)
    /\ cm' = "none"
    /\ img' = NoImage
    /\ original_size' = 0
    /\ requested' = <<0, 0>>
    /\ resized' = NoImage
    /\ thumbnail_data' = NoBytes
    /\ pc' = "open"
    /\ UNCHANGED <<prog, dir, image_files, idx, openHandles, scale_factor, results,
                   thumbs, stdout, exc, writes>>
    /\ UNCHANGED compVars

\* line 79 (analyze_images.py 35): the list is exhausted
LoopEnd ==
    /\ pc = "loop"
    /\ idx > Len(image_files)
    /\ pc' = IF prog = "generate" THEN "summary" ELSE "done"
    /\ UNCHANGED <<prog, dir, image_files, idx, cm, img, openHandles, original_size,
                   scale_factor, requested, resized, thumbnail_data, results, thumbs,
                   stdout, exc, visited, writes>>
    /\ UNCHANGED compVars

\* line 82 (analyze_images.py 37): Image.open succeeds, the with block is entered
OpenOk ==
    /\ pc = "open"
    /\ \E w \in SourceDims, h \in SourceDims, m \in SourceModes :
          img' = [obj |-> "file", width |-> w, height |-> h, mode |-> m]
    /\ cm' = Name(img_path)
    /\ openHandles' = openHandles \cup {Name(img_path)}
    /\ pc' = IF prog = "generate" THEN "stat" ELSE "dims"
    /\ UNCHANGED <<prog, dir, image_files, idx, original_size, scale_factor, requested,
                   resized, thumbnail_data, results, thumbs, stdout, exc, visited,
                   writes>>
    /\ UNCHANGED compVars

\* line 82 (analyze_images.py 37): Image.open raises, no with block is entered
OpenRaise ==
    /\ pc = "open"
    /\ exc' = "UnidentifiedImageError"
    /\ pc' = "except"
    /\ UNCHANGED <<prog, dir, image_files, idx, cm, img, openHandles, original_size,
                   scale_factor, requested, resized, thumbnail_data, results, thumbs,
                   stdout, visited, writes>>
    /\ UNCHANGED compVars

\* lines 83-84
ReadInfo ==
    /\ pc = "stat"
    /\ original_size' \in OriginalSizes
    /\ pc' = "convert"
    /\ UNCHANGED <<prog, dir, image_files, idx, cm, img, openHandles, scale_factor,
                   requested, resized, thumbnail_data, results, thumbs, stdout, exc,
                   visited, writes>>
    /\ UNCHANGED compVars

\* line 87: the condition of the conversion
NeedsConversion(image) == image.mode \notin {"RGB", "L"}

\* line 87, mode already RGB or L
ConvertSkip ==
    /\ pc = "convert"
    /\ ~NeedsConversion(img)
    /\ pc' = "resize"
    /\ UNCHANGED <<prog, dir, image_files, idx, cm, img, openHandles, original_size,
                   scale_factor, requested, resized, thumbnail_data, results, thumbs,
                   stdout, exc, visited, writes>>
    /\ UNCHANGED compVars

\* line 88: img is rebound to the converted copy, an image that holds no file
ConvertOk ==
    /\ pc = "convert"
    /\ NeedsConversion(img)
    /\ img' = [img EXCEPT !.obj = "converted", !.mode = "RGB"]
    /\ pc' = "resize"
    /\ UNCHANGED <<prog, dir, image_files, idx, cm, openHandles, original_size,
                   scale_factor, requested, resized, thumbnail_data, results, thumbs,
                   stdout, exc, visited, writes>>
    /\ UNCHANGED compVars

\* line 88: the conversion decodes the file, and the data cannot be decoded
ConvertRaise ==
    /\ pc = "convert"
    /\ NeedsConversion(img)
    /\ exc' = "OSError"
    /\ pc' = "exit_with"
    /\ UNCHANGED <<prog, dir, image_files, idx, cm, img, openHandles, original_size,
                   scale_factor, requested, resized, thumbnail_data, results, thumbs,
                   stdout, visited, writes>>
    /\ UNCHANGED compVars

\* lines 95-97: the call, with the configured arguments
CallCompress ==
    /\ pc = "call_compress"
    /\ cimg' = resized
    /\ target_bytes' = TARGET_SIZE_BYTES
    /\ initial_quality' = QUALITY_START
    /\ quality_step' = QUALITY_STEP
    /\ quality' = StartQuality(QUALITY_START)
    /\ output' = Unbound
    /\ cpc' = "loop"
    /\ result' = NoBytes
    /\ cexc' = "none"
    /\ encodes' = 0
    /\ firstFit' = 0
    /\ firstSize' = 0
    /\ fellBack' = FALSE
    /\ enc100' \in EncodedSizes(TARGET_SIZE_BYTES)
    /\ pc' = "compress"
    /\ UNCHANGED <<prog, dir, image_files, idx, cm, img, openHandles, original_size,
                   scale_factor, requested, resized, thumbnail_data, results, thumbs,
                   stdout, exc, visited, writes>>

\* the locals of compress_to_target_size are gone when it is left
CompGone ==
    /\ cimg' = NoImage
    /\ target_bytes' = 0
    /\ initial_quality' = 0
    /\ quality_step' = 0
    /\ quality' = 0
    /\ output' = Unbound
    /\ cpc' = "idle"
    /\ result' = NoBytes
    /\ cexc' = "none"
    /\ encodes' = 0
    /\ firstFit' = 0
    /\ firstSize' = 0
    /\ fellBack' = FALSE
    /\ enc100' = 0

\* lines 95-98: the call returns
CompressReturns ==
    /\ pc = "compress" /\ cpc = "returned"
    /\ idx <= Len(image_files)
    /\ thumbnail_data' = result
    /\ pc' = "write"
    /\ CompGone
    /\ UNCHANGED <<prog, dir, image_files, idx, cm, img, openHandles, original_size,
                   scale_factor, requested, resized, results, thumbs, stdout, exc,
                   visited, writes>>

\* lines 95-97: the call raises
CompressRaises ==
    /\ pc = "compress" /\ cpc = "raised"
    /\ idx <= Len(image_files)
    /\ exc' = cexc
    /\ pc' = "exit_with"
    /\ CompGone
    /\ UNCHANGED <<prog, dir, image_files, idx, cm, img, openHandles, original_size,
                   scale_factor, requested, resized, thumbnail_data, results, thumbs,
                   stdout, visited, writes>>

\* lines 101-103: the thumbnail is written, replacing any file of that name
WriteOk ==
    /\ pc = "write"
    /\ thumbs' = [n \in DOMAIN thumbs \cup {OutputName(img_path)} |->
                     IF n = OutputName(img_path)
                     THEN [source |-> Name(img_path), size |-> thumbnail_data.size]
                     ELSE thumbs[n]]
    /\ writes' = writes + 1
    /\ pc' = "stats"
    /\ UNCHANGED <<prog, dir, image_files, idx, cm, img, openHandles, original_size,
                   scale_factor, requested, resized, thumbnail_data, results, stdout,
                   exc, visited>>
    /\ UNCHANGED compVars

\* line 102: the output file cannot be opened for writing
WriteRaise ==
    /\ pc = "write"
    /\ exc' = "PermissionError"
    /\ pc' = "exit_with"
    /\ UNCHANGED <<prog, dir, image_files, idx, cm, img, openHandles, original_size,
                   scale_factor, requested, resized, thumbnail_data, results, thumbs,
                   stdout, visited, writes>>
    /\ UNCHANGED compVars

\* lines 98-123: the statistics (two divisions), results.append, the result line
Stats ==
    /\ pc = "stats"
    /\ IF thumbnail_data.size = 0 \/ original_size = 0
       THEN /\ exc' = "ZeroDivisionError"
            /\ UNCHANGED <<results, stdout>>
       ELSE /\ results' = Append(results,
                   [name |-> Name(img_path),
                    original_dim |-> <<img.height, img.width>>,
                    new_dim |-> <<resized.height, resized.width>>,
                    original_size |-> original_size,
                    final_size |-> thumbnail_data.size])
            /\ stdout' = Append(stdout, Line("ok", Name(img_path), thumbnail_data.size))
            /\ UNCHANGED exc
    /\ pc' = "exit_with"
    /\ UNCHANGED <<prog, dir, image_files, idx, cm, img, openHandles, original_size,
                   scale_factor, requested, resized, thumbnail_data, thumbs, visited,
                   writes>>
    /\ UNCHANGED compVars

\* analyze_images.py 38-39
PrintDims ==
    /\ pc = "dims"
    /\ stdout' = Append(stdout, Line("dims", Name(img_path), <<img.height, img.width>>))
    /\ pc' = "exit_with"
    /\ UNCHANGED <<prog, dir, image_files, idx, cm, img, openHandles, original_size,
                   scale_factor, requested, resized, thumbnail_data, results, thumbs,
                   exc, visited, writes>>
    /\ UNCHANGED compVars

ClosedIsBoundImage == IF img.obj = "file" THEN cm ELSE "none"
\* line 82 (analyze_images.py 37): __exit__ is called on the object Image.open
\* returned, whatever `img` names by then
ClosedByExit == cm

\* line 79 (analyze_images.py 35): after a file, the next one
AfterFile(i) == i + 1

AbortBatch(i) == Len(image_files) + 1
\* lines 125-126 (analyze_images.py 40-41): the handler ends inside the loop body
AfterError(i) == i + 1

\* leaving the with block, normally or by an exception (its __exit__ closes the
\* file).  The library may close the file earlier, once the image is decoded;
\* the model keeps it open as long as the code can.
WithExit ==
    /\ pc = "exit_with"
    /\ openHandles' = openHandles \ {ClosedByExit}
    /\ IF exc = "none"
       THEN /\ idx' = AfterFile(idx)
            /\ pc' = "loop"
       ELSE /\ pc' = "except"
            /\ UNCHANGED idx
    /\ UNCHANGED <<prog, dir, image_files, cm, img, original_size, scale_factor,
                   requested, resized, thumbnail_data, results, thumbs, stdout, exc,
                   visited, writes>>
    /\ UNCHANGED compVars

\* lines 125-126 (analyze_images.py 40-41): except Exception, one error line
Except ==
    /\ pc = "except"
    /\ stdout' = Append(stdout, Line("error", Name(img_path), exc))
    /\ exc' = "none"
    /\ idx' = AfterError(idx)
    /\ pc' = "loop"
    /\ UNCHANGED <<prog, dir, image_files, cm, img, openHandles, original_size,
                   scale_factor, requested, resized, thumbnail_data, results, thumbs,
                   visited, writes>>
    /\ UNCHANGED compVars

SummaryAlways(rs) == TRUE
\* line 132: if results
SummaryGuard(rs) == rs # <<>>

\* lines 129-140: the count, then the totals and their two quotients
Summary ==
    /\ pc = "summary"
    /\ IF SummaryGuard(results)
       THEN IF SumOf(results, "final_size") = 0 \/ SumOf(results, "original_size") = 0
            THEN /\ stdout' = Append(stdout, Line("generated", "", Len(results)))
                 /\ pc' = "crashed"
            ELSE /\ stdout' = stdout \o
                     << Line("generated", "", Len(results)),
                        Line("average", "",
                             SumOf(results, "original_size")
                                 \div SumOf(results, "final_size")) >>
                 /\ pc' = "done"
       ELSE /\ stdout' = Append(stdout, Line("generated", "", Len(results)))
            /\ pc' = "done"
    /\ UNCHANGED <<prog, dir, image_files, idx, cm, img, openHandles, original_size,
                   scale_factor, requested, resized, thumbnail_data, results, thumbs,
                   exc, visited, writes>>
    /\ UNCHANGED compVars

Init ==
    /\ BatchIdle
    /\ prog \in {"generate", "analyze"}
    /\ dir \in {[exists |-> FALSE, entries |-> {}]}
                \cup {[exists |-> TRUE, entries |-> E] : E \in SUBSET DirUniverse}
    /\ CompIdle
    /\ img = NoImage
    /\ scale_factor = SCALE_FACTOR
    /\ pc = "start"

\* FallbackUnbound is no step of the batch: generate_thumbnails always passes
\* QUALITY_START = 85 > 10, so the loop body runs at least once.
Next ==
    \/ NoDirectory
    \/ Scan
    \/ NextFile
    \/ LoopEnd
    \/ OpenOk
    \/ OpenRaise
    \/ ReadInfo
    \/ ConvertSkip
    \/ ConvertOk
    \/ ConvertRaise
    \/ ResizeOk
    \/ ResizeEmpty
    \/ ResizeRaise
    \/ ResizeLoadRaise
    \/ CallCompress
    \/ EncodeHit
    \/ EncodeMiss
    \/ EncodeRaise
    \/ FallbackReturn
    \/ CompressReturns
    \/ CompressRaises
    \/ WriteOk
    \/ WriteRaise
    \/ Stats
    \/ PrintDims
    \/ WithExit
    \/ Except
    \/ Summary

Spec == Init /\ [][Next]_vars

\* ------------------------------------------------ claims: compression

Terminal == cpc \in {"returned", "raised"}

\* ceil(n / d) for d >= 1, 0 for n <= 0
CeilDiv(n, d) == IF n <= 0 THEN 0 ELSE (n + d - 1) \div d

\* Q0 - S*k for the largest k with Q0 - S*k > 10 (Q0 > 10)
LowestAttempted(q0, s) == q0 - s * ((q0 - QualityFloor - 1) \div s)

\* C1: with Q0 > 10 and S >= 1 the k-th encode is at quality Q0 - (k-1)*S; as
\* soon as one encoding has size <= B the call has returned exactly that
\* encoding (the first that fits: while the loop runs no earlier one fitted),
\* its size is <= B, and the number of encodes is its position in the
\* sequence, so none follows the hit.
C1_FirstFitReturned ==
    (pc = "compress" /\ initial_quality > 10 /\ quality_step >= 1) =>
        /\ output.size > 0 =>
              output.quality = initial_quality - (encodes - 1) * quality_step
        /\ cpc = "loop" =>
              /\ firstFit = 0
              /\ quality = initial_quality - encodes * quality_step
        /\ firstFit # 0 =>
              /\ cpc = "returned"
              /\ ~fellBack
              /\ result.quality = firstFit
              /\ result.size <= target_bytes
              /\ result.size = output.size
              /\ encodes = ((initial_quality - firstFit) \div quality_step) + 1

C1_Witness ==
    /\ pc = "compress" /\ cpc = "returned"
    /\ initial_quality = QUALITY_START /\ quality_step = QUALITY_STEP
    /\ encodes = 3
    /\ firstFit = 75 /\ result.quality = 75
    /\ result.size <= target_bytes

\* C2: when every attempted quality encodes to more than B (Q0 > 10, S >= 1),
\* the call returns (no exception) the encoding at the lowest quality above
\* the floor, Q0 - S*k for the largest k with Q0 - S*k > 10, which is 15 for
\* Q0 = 85, S = 5; its size exceeds B, and quality 10 is never encoded.
C2_FallbackIsLowestAttempted ==
    /\ output.size > 0 => output.quality > QualityFloor
    /\ (/\ pc = "compress" /\ Terminal
        /\ initial_quality > 10 /\ quality_step >= 1
        /\ CanEncodeJPEG(cimg)
        /\ firstFit = 0) =>
           /\ cpc = "returned" /\ cexc = "none"
           /\ fellBack
           /\ result.quality = LowestAttempted(initial_quality, quality_step)
           /\ result.quality > QualityFloor
           /\ result.quality - quality_step <= QualityFloor
           /\ result.size > target_bytes
           /\ encodes = CeilDiv(initial_quality - QualityFloor, quality_step)
           /\ (initial_quality = 85 /\ quality_step = 5) => result.quality = 15

C2_Witness ==
    /\ pc = "compress" /\ cpc = "returned" /\ fellBack
    /\ initial_quality = QUALITY_START /\ quality_step = QUALITY_STEP
    /\ firstFit = 0
    /\ result.quality = 15
    /\ result.size > target_bytes

\* C3 as stated: whenever the quality-100 encoding fits under B, the call
\* (Q0 in 11..100) returns the Q0 encoding after exactly one encode, size <= B.
C3_Original ==
    (/\ pc = "compress" /\ Terminal
     /\ initial_quality \in 11..100
     /\ CanEncodeJPEG(cimg)
     /\ enc100 <= target_bytes) =>
        /\ cpc = "returned"
        /\ result.quality = initial_quality
        /\ encodes = 1
        /\ result.size <= target_bytes

\* C3 amended: when the quality-100 encoding fits under B and the encoder is
\* monotone between Q0 and 100 (the Q0 encoding is no longer than the
\* quality-100 one), the first encode, at Q0 in 11..100, is returned at once:
\* one encode, size <= B.
C3_FirstAttemptWhenMonotone ==
    (/\ pc = "compress" /\ Terminal
     /\ initial_quality \in 11..100
     /\ CanEncodeJPEG(cimg)
     /\ enc100 <= target_bytes
     /\ firstSize <= enc100) =>
        /\ cpc = "returned"
        /\ result.quality = initial_quality
        /\ encodes = 1
        /\ result.size = firstSize
        /\ result.size <= target_bytes

C3_Witness ==
    /\ pc = "compress" /\ cpc = "returned"
    /\ initial_quality = QUALITY_START
    /\ enc100 = target_bytes
    /\ encodes = 1
    /\ result.quality = QUALITY_START
    /\ result.size < enc100

\* C4 as stated: the loop performs at most (Q0-10)/S encode iterations.
C4_Original ==
    (pc = "compress" /\ initial_quality > 10 /\ quality_step >= 1) =>
        encodes * quality_step <= initial_quality - QualityFloor

\* C4 amended: for every Q0 and every S >= 1 the loop terminates after at most
\* ceil((Q0-10)/S) encode iterations (none when Q0 <= 10): encodes done plus
\* iterations still possible never exceeds that number, every state that is
\* not final has a step, and for Q0 = 85, S = 5 the number is 15.
C4_BoundedByCeiling ==
    (pc = "compress" /\ quality_step >= 1) =>
        /\ encodes <= CeilDiv(initial_quality - QualityFloor, quality_step)
        /\ cpc = "loop" =>
              encodes + CeilDiv(quality - QualityFloor, quality_step)
                  = CeilDiv(initial_quality - QualityFloor, quality_step)
        /\ Terminal \/ ENABLED NextCompress
        /\ (initial_quality = 85 /\ quality_step = 5) => encodes <= 15

C4_Witness ==
    /\ pc = "compress" /\ Terminal
    /\ initial_quality = 84 /\ quality_step = 5
    /\ encodes = 15
    /\ encodes * quality_step > initial_quality - QualityFloor

\* C7 as stated: when the first encode attempt throws, the statement after the
\* loop runs and reads `output`, which was never assigned.
C7_Original ==
    (/\ pc = "compress" /\ Terminal
     /\ encodes = 1 /\ firstSize = 0) =>
        /\ fellBack
        /\ ~output.bound
        /\ cexc = "UnboundLocalError"

\* C7 amended: when the first encode attempt throws, the exception leaves
\* compress_to_target_size at once: the statement after the loop is not
\* executed, nothing is returned, and `output` is already bound (to the fresh
\* buffer).  The statement after the loop reads an unassigned `output` exactly
\* when the loop body never ran, that is when Q0 <= 10.
C7_EncodeErrorPropagates ==
    (pc = "compress") =>
        /\ (encodes >= 1 /\ firstSize = 0) =>
              /\ encodes = 1
              /\ cpc = "raised" /\ cexc = "EncodeError"
              /\ ~fellBack
              /\ output.bound
              /\ result = NoBytes
        /\ cexc = "UnboundLocalError" <=>
              (Terminal /\ fellBack /\ encodes = 0 /\ initial_quality <= QualityFloor)
        /\ (Terminal /\ initial_quality <= QualityFloor) => cexc = "UnboundLocalError"
        /\ (fellBack /\ initial_quality > QualityFloor) => output.bound

C7_Witness ==
    /\ pc = "compress" /\ cpc = "raised"
    /\ cexc = "EncodeError"
    /\ cimg.width = 0
    /\ initial_quality = QUALITY_START
    /\ encodes = 1
    /\ output.bound
    /\ ~fellBack

\* ----------------------------------------------------- claims: resize

\* floor of the exact quotient n/d, by its defining inequalities
Floor(n, d) == CHOOSE k \in 0..n : k * d <= n /\ n < (k + 1) * d

\* C5: for an image of W x H (W, H >= 1) and a scale factor f, the size
\* resize_with_aspect_ratio asks for is (floor(W*f), floor(H*f)); at f = 1/4
\* that is (W div 4, H div 4).  No guard precedes the request: with W <= 3 or
\* H <= 3 at f = 1/4 the requested dimension is 0, and a 0 request is either
\* rejected by the library or answered with an image of exactly that size.
C5_RequestedIsFloor ==
    (pc \in {"call_compress", "exit_with"} /\ img.obj # "none") =>
        /\ requested = <<Floor(img.width * scale_factor[1], scale_factor[2]),
                         Floor(img.height * scale_factor[1], scale_factor[2])>>
        /\ scale_factor = <<1, 4>> =>
              /\ requested = <<img.width \div 4, img.height \div 4>>
              /\ img.width <= 3 => requested[1] = 0
              /\ img.height <= 3 => requested[2] = 0
        /\ pc = "call_compress" =>
              /\ resized.width = requested[1]
              /\ resized.height = requested[2]
        /\ (pc = "exit_with" /\ exc = "ValueError") =>
              (requested[1] = 0 \/ requested[2] = 0)

C5_Witness ==
    /\ pc = "call_compress"
    /\ scale_factor = SCALE_FACTOR
    /\ img.width = 3 /\ img.height = 6
    /\ requested = <<0, 1>>
    /\ resized.width = 0

\* ------------------------------------------------------ claims: batch

\* the lines of the given kinds printed so far
LinesOf(kinds) == {i \in 1..Len(stdout) : stdout[i].kind \in kinds}

\* the lines printed for one file
LinesFor(f) == {i \in LinesOf({"ok", "dims", "error"}) : stdout[i].name = Name(f)}

\* C6: an exception raised while one file is processed (open, convert,
\* resize, encode, write) is in flight only inside that file's iteration and
\* ends as one error line; the loop takes every file of the sorted list once,
\* in filename order; each finished file has exactly one line, a result or an
\* error; and at the end the results (the dimension lines in analyze_images)
\* plus the error lines are as many as the matching files.
C6_ErrorsStayPerFile ==
    /\ exc # "none" => pc \in {"exit_with", "except"}
    /\ pc # "crashed"
    /\ pc # "start" =>
          /\ {image_files[i] : i \in 1..Len(image_files)} = Matching(dir.entries)
          /\ Len(image_files) = Cardinality(Matching(dir.entries))
          /\ \A i, j \in 1..Len(image_files) :
                i < j => StrRank(Name(image_files[i])) < StrRank(Name(image_files[j]))
          /\ Len(visited) <= Len(image_files)
          /\ visited = SubSeq(image_files, 1, Len(visited))
    /\ pc = "loop" =>
          /\ Len(visited) = idx - 1
          /\ \A i \in 1..(idx - 1) : Cardinality(LinesFor(image_files[i])) = 1
          /\ Cardinality(LinesOf({"ok", "dims"})) + Cardinality(LinesOf({"error"}))
                = idx - 1
    /\ (pc = "done" /\ dir.exists) =>
          /\ visited = image_files
          /\ Cardinality(LinesOf({"error"}))
                + (IF prog = "generate" THEN Len(results)
                   ELSE Cardinality(LinesOf({"dims"})))
                = Len(image_files)

C6_Witness ==
    /\ pc = "done" /\ prog = "generate"
    /\ Len(image_files) = 3
    /\ visited = image_files
    /\ {stdout[i].n : i \in LinesOf({"error"})} = {"EncodeError", "PermissionError"}
    /\ stdout[2].kind = "error"
    /\ stdout[3].kind = "error"
    /\ Len(results) = 1
    /\ results[1].name = "b.JPG"

\* C8: at most one image file is held open at any time, it is the one the
\* running with block opened, and none is held open outside a with block:
\* not when the loop takes the next file, not in the exception handler
\* (whether or not `img` was rebound by the conversion), not at the end.
C8_HandleReleased ==
    /\ Cardinality(openHandles) <= 1
    /\ openHandles \subseteq {cm}
    /\ pc \in {"start", "loop", "open", "except", "summary", "done", "crashed"} =>
          openHandles = {}

C8_Witness ==
    /\ pc = "except"
    /\ exc = "EncodeError"
    /\ img.obj = "converted"
    /\ cm = Name(img_path)
    /\ idx = 2
    /\ openHandles = {}

\* C9: when the directory exists and no entry matches, the scan yields an
\* empty list and the report says 0 images; no file is taken by the loop, none
\* is opened, no thumbnail is written, no error is reported, and the summary
\* prints the count 0 and divides nothing (the run ends normally without an
\* average line).
C9_EmptyScan ==
    (dir.exists /\ Matching(dir.entries) = {} /\ pc # "start") =>
        /\ image_files = <<>>
        /\ results = <<>>
        /\ visited = <<>>
        /\ openHandles = {}
        /\ DOMAIN thumbs = {}
        /\ writes = 0
        /\ exc = "none"
        /\ pc \in {"loop", "summary", "done"}
        /\ stdout[1].kind = "found" /\ stdout[1].n = 0
        /\ LinesOf({"error", "average", "ok", "dims"}) = {}
        /\ (pc = "done" /\ prog = "generate") =>
              /\ Len(stdout) = 2
              /\ stdout[2].kind = "generated" /\ stdout[2].n = 0
        /\ (pc = "done" /\ prog = "analyze") => Len(stdout) = 1

C9_Witness ==
    /\ pc = "done" /\ prog = "generate"
    /\ Cardinality(dir.entries) = 2
    /\ image_files = <<>>
    /\ Len(stdout) = 2
    /\ stdout[2].kind = "generated"

\* C10 as stated: at the end of generate_thumbnails the count reported as
\* generated, len(results), is the number of distinct thumbnail files written
\* in the run (no thumbnail was replaced by a later file's).
C10_CountIsDistinctThumbnails ==
    (pc = "done" /\ prog = "generate") =>
        Len(results) = Cardinality(DOMAIN thumbs)

====
